---- MODULE Spec2Model ----
(***************************************************************************)
(* Model of the crawl / clean / chunk core of aaa-web.                     *)
(*                                                                         *)
(*   services/scraper.py       scrape_site, scrape_page, URL helpers        *)
(*   app.py                    scrape_site, fetch_url, URL helpers          *)
(*   services/text_cleaner.py  clean_text, _chunk_by_chars,                 *)
(*                             chunk_text_with_provenance, chunk_text       *)
(*                                                                         *)
(* Python strings are sequences of one-character strings, so that every    *)
(* string operation of the code (strip, find, slicing, lower, endswith)    *)
(* is computed on the characters.                                          *)
(***************************************************************************)
EXTENDS Integers, Sequences, FiniteSets, TLC

(***************************************************************************)
(* Python str primitives                                                   *)
(***************************************************************************)

\* str.isspace(): the characters str.strip() and the regex class \s remove
Whitespace == {" ", "\t", "\n", "\r"}

LowerLetters == <<"a","b","c","d","e","f","g","h","i","j","k","l","m",
                  "n","o","p","q","r","s","t","u","v","w","x","y","z">>

UpperLetters == <<"A","B","C","D","E","F","G","H","I","J","K","L","M",
                  "N","O","P","Q","R","S","T","U","V","W","X","Y","Z">>

Digits == {"0","1","2","3","4","5","6","7","8","9"}

Range(s) == {s[i] : i \in 1..Len(s)}

IsAlpha(c) == c \in Range(LowerLetters) \cup Range(UpperLetters)

\* str.lower() on one character
LowerChar(c) ==
    IF c \in Range(UpperLetters)
    THEN LowerLetters[CHOOSE i \in 1..26 : UpperLetters[i] = c]
    ELSE c

\* str.lower()
Lower(s) == [i \in 1..Len(s) |-> LowerChar(s[i])]

SetMin(S) == CHOOSE x \in S : \A y \in S : x <= y

SetMax(S) == CHOOSE x \in S : \A y \in S : x >= y

\* s[:k]
Take(s, k) == SubSeq(s, 1, IF k < Len(s) THEN k ELSE Len(s))

\* s[k:]
Drop(s, k) == SubSeq(s, k + 1, Len(s))

\* str.find(c) + 1: the 1-based index of the first c in s, 0 when there is none
Find(s, c) ==
    LET I == {i \in 1..Len(s) : s[i] = c}
    IN  IF I = {} THEN 0 ELSE SetMin(I)

\* the 1-based index of the first character of s that is in set C, 0 if none
FindAny(s, C) ==
    LET I == {i \in 1..Len(s) : s[i] \in C}
    IN  IF I = {} THEN 0 ELSE SetMin(I)

\* str.startswith(p)
StartsWith(s, p) == Len(s) >= Len(p) /\ SubSeq(s, 1, Len(p)) = p

\* str.endswith(p)
EndsWith(s, p) ==
    Len(s) >= Len(p) /\ SubSeq(s, Len(s) - Len(p) + 1, Len(s)) = p

\* str.strip()
Strip(s) ==
    LET I == {i \in 1..Len(s) : s[i] \notin Whitespace}
    IN  IF I = {} THEN <<>> ELSE SubSeq(s, SetMin(I), SetMax(I))

\* str.lstrip()
LStrip(s) ==
    LET I == {i \in 1..Len(s) : s[i] \notin Whitespace}
    IN  IF I = {} THEN <<>> ELSE SubSeq(s, SetMin(I), Len(s))

\* s without its leading "\n" characters
LStripNewlines(s) ==
    LET I == {i \in 1..Len(s) : s[i] # "\n"}
    IN  IF I = {} THEN <<>> ELSE SubSeq(s, SetMin(I), Len(s))

DigitChars == <<"0","1","2","3","4","5","6","7","8","9">>

\* "sep".join(parts)
RECURSIVE Join(_, _)
Join(parts, sep) ==
    IF parts = <<>> THEN <<>>
    ELSE IF Len(parts) = 1 THEN parts[1]
    ELSE parts[1] \o sep \o Join(Tail(parts), sep)

\* str.split(c) for a one-character separator
RECURSIVE Split(_, _)
Split(s, c) ==
    LET i == Find(s, c)
    IN  IF i = 0 THEN <<s>>
        ELSE <<Take(s, i - 1)>> \o Split(Drop(s, i), c)

(***************************************************************************)
(* urllib.parse, as the crawlers use it                                    *)
(***************************************************************************)

HTTP == <<"h","t","t","p">>

HTTPS == <<"h","t","t","p","s">>

SchemeChars == Range(LowerLetters) \cup Range(UpperLetters) \cup Digits
               \cup {"+", "-", "."}

\* schemes for which urlunsplit writes "//" even before an empty netloc,
\* and which urljoin resolves (uses_netloc / uses_relative, as far as used)
UsesNetloc == {HTTP, HTTPS, <<"f","t","p">>}

\* urlsplit, step 1: leading whitespace and every tab, CR and LF removed
CleanUrl(url) ==
    SelectSeq(LStrip(url), LAMBDA c : c \notin {"\t", "\r", "\n"})

\* urlsplit, step 2: the index of the ":" that ends a scheme, 0 without one
SchemeEnd(url, i) ==
    IF /\ i > 1
       /\ IsAlpha(url[1])
       /\ \A j \in 1..(i - 1) : url[j] \in SchemeChars
    THEN i ELSE 0

SchemeOf(url, i) == IF i = 0 THEN <<>> ELSE Lower(Take(url, i - 1))

\* urlsplit, step 3: the netloc after "//" runs to the first of "/", "?", "#"
NetlocOf(r1b, d) == IF d = 0 THEN r1b ELSE Take(r1b, d - 1)

AfterNetloc(r1b, d) == IF d = 0 THEN <<>> ELSE Drop(r1b, d - 1)

\* urlsplit, steps 4 and 5: fragment after the first "#", query after the
\* first "?" of what is left
BeforeChar(s, i) == IF i = 0 THEN s ELSE Take(s, i - 1)

AfterChar(s, i) == IF i = 0 THEN <<>> ELSE Drop(s, i)

parse_query(scheme, netloc, r3, fragment) ==
    [scheme |-> scheme, netloc |-> netloc,
     path |-> BeforeChar(r3, Find(r3, "?")),
     query |-> AfterChar(r3, Find(r3, "?")), fragment |-> fragment]

parse_fragment(scheme, netloc, r2) ==
    parse_query(scheme, netloc, BeforeChar(r2, Find(r2, "#")),
                AfterChar(r2, Find(r2, "#")))

parse_netloc(scheme, r1) ==
    IF StartsWith(r1, <<"/", "/">>)
    THEN parse_fragment(scheme,
            NetlocOf(Drop(r1, 2), FindAny(Drop(r1, 2), {"/", "?", "#"})),
            AfterNetloc(Drop(r1, 2), FindAny(Drop(r1, 2), {"/", "?", "#"})))
    ELSE parse_fragment(scheme, <<>>, r1)

parse_scheme(url, i) ==
    parse_netloc(SchemeOf(url, i), IF i = 0 THEN url ELSE Drop(url, i))

parse_clean(url) == parse_scheme(url, SchemeEnd(url, Find(url, ":")))

\* urllib.parse.urlparse(url): scheme (lower-cased), netloc, path, query,
\* fragment
urlparse(url) == parse_clean(CleanUrl(url))

\* urlunsplit: "//" netloc path, when there is a netloc or the scheme takes one
WithNetloc(scheme, netloc, path) ==
    IF \/ netloc # <<>>
       \/ /\ scheme # <<>>
          /\ scheme \in UsesNetloc
          /\ ~StartsWith(path, <<"/", "/">>)
    THEN <<"/", "/">> \o netloc \o
         (IF path # <<>> /\ path[1] # "/" THEN <<"/">> \o path ELSE path)
    ELSE path

WithScheme(scheme, u) == IF scheme # <<>> THEN scheme \o <<":">> \o u ELSE u

WithSuffix(u, mark, part) == IF part # <<>> THEN u \o <<mark>> \o part ELSE u

\* urllib.parse.urlunparse((scheme, netloc, path, "", query, fragment))
urlunparse(p) ==
    WithSuffix(
      WithSuffix(WithScheme(p.scheme, WithNetloc(p.scheme, p.netloc, p.path)),
                 "?", p.query),
      "#", p.fragment)

\* urllib.parse.urldefrag(url)[0]
urldefrag(url) ==
    IF Find(url, "#") = 0 THEN url
    ELSE urlunparse([urlparse(url) EXCEPT !.fragment = <<>>])

\* urljoin: the base path without its last segment, as a list of segments
BaseParts(bp) == IF bp[Len(bp)] # <<>> THEN SubSeq(bp, 1, Len(bp) - 1) ELSE bp

\* urljoin: empty segments removed, the first and the last one kept
FilterInner(segs) ==
    IF Len(segs) <= 1 THEN segs
    ELSE <<segs[1]>>
         \o SelectSeq(SubSeq(segs, 2, Len(segs) - 1), LAMBDA x : x # <<>>)
         \o <<segs[Len(segs)]>>

OrSlash(path) == IF path = <<>> THEN <<"/">> ELSE path

\* the path merge of urllib.parse.urljoin for a reference path that does not
\* start with "/" (the alphabet has no "." segments)
MergePath(bpath, path) ==
    OrSlash(Join(FilterInner(BaseParts(Split(bpath, "/")) \o Split(path, "/")),
                 <<"/">>))

\* urljoin once both are parsed; u has the base's scheme if it had none
join_parsed(b, u, url) ==
    IF u.scheme # b.scheme \/ u.scheme \notin UsesNetloc THEN url
    ELSE IF u.netloc # <<>> THEN urlunparse(u)
    ELSE urlunparse(
           [scheme |-> u.scheme, netloc |-> b.netloc,
            path |-> IF u.path = <<>> THEN b.path
                     ELSE IF u.path[1] = "/" THEN u.path
                     ELSE MergePath(b.path, u.path),
            query |-> IF u.path = <<>> /\ u.query = <<>>
                      THEN b.query ELSE u.query,
            fragment |-> u.fragment])

DefaultScheme(u, scheme) ==
    IF u.scheme = <<>> THEN [u EXCEPT !.scheme = scheme] ELSE u

join_with_base(b, url) ==
    join_parsed(b, DefaultScheme(urlparse(url), b.scheme), url)

\* urllib.parse.urljoin(base, url)
urljoin(base, url) ==
    IF base = <<>> THEN url
    ELSE IF url = <<>> THEN base
    ELSE join_with_base(urlparse(base), url)

\* netloc without its port, lower-cased
HostOfNetloc(nl, c) == Lower(IF c = 0 THEN nl ELSE Take(nl, c - 1))

\* ParseResult.hostname
hostname(url) ==
    HostOfNetloc(urlparse(url).netloc, Find(urlparse(url).netloc, ":"))

(***************************************************************************)
(* services/scraper.py: URL helpers                                        *)
(***************************************************************************)

\* re.sub(r"/{2,}", "/", path)
RECURSIVE CollapseSlashes(_)
CollapseSlashes(path) ==
    IF Len(path) < 2 THEN path
    ELSE IF path[1] = "/" /\ path[2] = "/" THEN CollapseSlashes(Tail(path))
    ELSE <<path[1]>> \o CollapseSlashes(Tail(path))

_strip_fragment(url) == urldefrag(url)

\* "remove default ports": ":80" for http, then ":443" for https
StripPort(netloc, scheme, port, forScheme) ==
    IF EndsWith(netloc, port) /\ scheme = forScheme
    THEN Take(netloc, Len(netloc) - Len(port)) ELSE netloc

\* "strip trailing slash (except root)"
StripSlash(path) ==
    IF path # <<"/">> /\ EndsWith(path, <<"/">>)
    THEN Take(path, Len(path) - 1) ELSE path

OrDefault(x, default) == IF x # <<>> THEN x ELSE default

normalize_scheme(p, scheme) ==
    urlunparse(
      [scheme |-> scheme,
       netloc |-> StripPort(StripPort(Lower(p.netloc), scheme,
                                      <<":", "8", "0">>, HTTP),
                            scheme, <<":", "4", "4", "3">>, HTTPS),
       path |-> StripSlash(CollapseSlashes(OrDefault(p.path, <<"/">>))),
       query |-> p.query, fragment |-> <<>>])

normalize_parsed(p) == normalize_scheme(p, Lower(OrDefault(p.scheme, HTTPS)))

_normalize_url(url) == normalize_parsed(urlparse(_strip_fragment(Strip(url))))

_same_site(a, b) == Lower(urlparse(a).netloc) = Lower(urlparse(b).netloc)

_is_http_url(url) == urlparse(url).scheme \in {HTTP, HTTPS}

(***************************************************************************)
(* app.py: URL helpers                                                     *)
(***************************************************************************)

\* re.match(r"^https?://", url, re.I)
HasHttpPrefix(url) ==
    \/ StartsWith(Lower(url), HTTP \o <<":", "/", "/">>)
    \/ StartsWith(Lower(url), HTTPS \o <<":", "/", "/">>)

normalize_stripped(u) ==
    IF u = <<>> THEN u
    ELSE IF ~HasHttpPrefix(u) THEN HTTPS \o <<":", "/", "/">> \o u
    ELSE u

normalize_url(url) == normalize_stripped(Strip(url))

same_site(a, b) == hostname(a) = hostname(b)

\* urlparse(u)._replace(fragment="").geturl()
replace_fragment(u) == urlunparse([urlparse(u) EXCEPT !.fragment = <<>>])

(***************************************************************************)
(* The web the crawlers run against                                        *)
(*                                                                         *)
(* requests.get and BeautifulSoup are outside the repository: a response   *)
(* is either an error (any exception of requests.get / raise_for_status)   *)
(* or the final URL after redirects, the content-type header and the       *)
(* parsed document (its title, its visible text, its <a href> values in    *)
(* document order).  Every fetch draws its response anew.  The status      *)
(* code, the timestamp and the raw markup are data the loops only copy     *)
(* and are left out of the records.                                        *)
(***************************************************************************)

\* most <a href> values one document holds
MaxLinks == 2

\* largest max_pages argument explored
MaxPagesBound == 2

SlashSlash == <<":", "/", "/">>

U_empty == <<>>

U_a == HTTPS \o SlashSlash \o <<"a", "/">>

U_ap == HTTPS \o SlashSlash \o <<"a", "/", "p">>

\* the same page as U_ap under another spelling: upper-case scheme and host,
\* the default port, a trailing slash and a fragment
U_apVariant ==
    <<"H","T","T","P","S">> \o SlashSlash \o
    <<"A", ":", "4", "4", "3", "/", "p", "/", "#", "f">>

\* same host, other scheme
U_http_ap == HTTP \o SlashSlash \o <<"a", "/", "p">>

U_b == HTTPS \o SlashSlash \o <<"b", "/">>

\* a root-relative reference
U_rel_q == <<"/", "q">>

\* the href values documents may hold
RawHrefs == {U_a, U_ap, U_apVariant, U_http_ap, U_b, U_rel_q}

\* the start_url arguments explored
StartInputs == {U_empty, U_a}

\* a site whose pages hold many links
U_c == HTTPS \o SlashSlash \o <<"c", "/">>

MaxFanOut == 20

\* "/01", "/02", ...: the links of its portal page
FanOutHrefs ==
    [i \in 1..MaxFanOut |->
        <<"/", DigitChars[(i \div 10) + 1], DigitChars[(i % 10) + 1]>>]

U_rel_x == <<"/", "x">>

U_rel_y == <<"/", "y">>

IsFanOutSite(url) == urlparse(url).netloc = <<"c">>

\* the href values a document at url may hold
HrefsAt(url) ==
    IF IsFanOutSite(url)
    THEN {FanOutHrefs[i] : i \in 1..MaxFanOut} \cup {U_rel_x, U_rel_y}
    ELSE RawHrefs

\* where a redirect may lead instead of the requested URL
RedirectTargets == {U_b}

\* sequences over S of length at most n
RECURSIVE SeqsUpTo(_, _)
SeqsUpTo(S, n) ==
    IF n = 0 THEN {<<>>}
    ELSE LET R == SeqsUpTo(S, n - 1)
         IN  R \cup {Append(q, x) : q \in {r \in R : Len(r) = n - 1}, x \in S}

LinkLists == SeqsUpTo(RawHrefs, MaxLinks)

CT_html == <<"t","e","x","t","/","h","t","m","l",";"," ","c","h","a","r","s","e","t","=","U","T","F","-","8">>

CT_pdf == <<"a","p","p","l","i","c","a","t","i","o","n","/","p","d","f">>

ContentTypes == {CT_html, CT_pdf}

\* r.text == "": no markup at all
EmptyBody == [title |-> "", text |-> "", hrefs |-> <<>>]

HtmlBodies == {EmptyBody} \cup
              {[title |-> "Home", text |-> "words", hrefs |-> L] : L \in LinkLists}

\* what comes with another content type may still hold markup with links
OtherBodies == {EmptyBody,
                [title |-> "Home", text |-> "words", hrefs |-> <<U_ap, U_b>>]}

\* the documents of the link-heavy site
PortalBody == [title |-> "Portal", text |-> "portal", hrefs |-> FanOutHrefs]

DeepBody ==
    [title |-> "Deep", text |-> "deep", hrefs |-> <<U_rel_x, FanOutHrefs[1]>>]

LeafBody == [title |-> "Leaf", text |-> "leaf", hrefs |-> <<U_rel_y>>]

FanOutBodies == {PortalBody, DeepBody, LeafBody}

ErrorResponse == [kind |-> "error"]

\* requests.get(url): a URL without a host or with a scheme other than
\* http/https raises before anything is sent
Responses(url) ==
    IF urlparse(url).netloc = <<>> \/ urlparse(url).scheme \notin {HTTP, HTTPS}
    THEN {ErrorResponse}
    ELSE IF IsFanOutSite(url)
    THEN {ErrorResponse} \cup
         {[kind |-> "ok", url |-> url, ctype |-> CT_html, body |-> b] :
             b \in FanOutBodies}
    ELSE {ErrorResponse} \cup
         {[kind |-> "ok", url |-> f, ctype |-> CT_html, body |-> b] :
             f \in {url} \cup RedirectTargets, b \in HtmlBodies} \cup
         {[kind |-> "ok", url |-> f, ctype |-> CT_pdf, body |-> b] :
             f \in {url} \cup RedirectTargets, b \in OtherBodies}

\* "needle in s"
Contains(s, needle) ==
    \E i \in 1..(Len(s) - Len(needle) + 1) :
        SubSeq(s, i, i + Len(needle) - 1) = needle

ContainsHtml == [c \in ContentTypes |-> Contains(Lower(c), <<"h","t","m","l">>)]

\* what the fetch log records of a response
Outcome(resp) ==
    IF resp.kind = "error" THEN "error"
    ELSE IF ContainsHtml[resp.ctype] THEN "html"
    ELSE "nonhtml"

(***************************************************************************)
(* State                                                                   *)
(***************************************************************************)

VARIABLES
    impl,            \* which crawler runs: "services" or "app"
    start_input,     \* the start_url argument as passed
    max_pages,       \* the max_pages argument
    start_url,       \* start_url after normalisation
    pc,              \* "loop": in the while loop; "done": returned
    queue,           \* FIFO of URLs to fetch
    seen,            \* the set seen
    pages,           \* page records, in fetch order
    all_links,       \* services/scraper.py: all_links
    final_root_url,  \* services/scraper.py: final_root_url
    log,             \* every requests.get issued, in order, with its outcome
    ck               \* the call in progress (chunker, cleaner, normaliser and
                     \* LiveAvatar specifications)

vars == <<impl, start_input, max_pages, start_url, pc, queue, seen, pages,
          all_links, final_root_url, log, ck>>

None == [none |-> TRUE]

(***************************************************************************)
(* services/scraper.py: scrape_page and scrape_site                        *)
(***************************************************************************)

SchemePrefixes == {<<"m","a","i","l","t","o",":">>, <<"t","e","l",":">>,
                   <<"j","a","v","a","s","c","r","i","p","t",":">>,
                   <<"d","a","t","a",":">>}

\* list de-duplication keeping the first occurrence
RECURSIVE Dedupe(_, _)
Dedupe(found, acc) ==
    IF found = <<>> THEN acc
    ELSE Dedupe(Tail(found),
                IF Head(found) \in Range(acc) THEN acc
                ELSE Append(acc, Head(found)))

\* _extract_internal_links, once abs_url is resolved and normalised
svc_keep(host_url, abs_url) ==
    IF ~_is_http_url(abs_url) THEN <<>>
    ELSE IF _same_site(host_url, abs_url) THEN <<abs_url>>
    ELSE <<>>

\* the loop body of _extract_internal_links for one stripped <a href>: the
\* sequence of URLs (none or one) it appends to found
svc_link_of(host_url, href) ==
    IF href = <<>> THEN <<>>
    ELSE IF \E pre \in SchemePrefixes : StartsWith(href, pre) THEN <<>>
    ELSE svc_keep(host_url, _normalize_url(urljoin(host_url, href)))

\* Every URL a services crawl can hold: the start URLs, the redirect targets
\* and what link extraction makes of the documents' hrefs from there on.
RECURSIVE SvcClosure(_)
SvcClosure(S) ==
    IF \A b \in S : \A h \in HrefsAt(b) :
          Range(svc_link_of(b, Strip(h))) \subseteq S
    THEN S
    ELSE SvcClosure(S \cup UNION {UNION {Range(svc_link_of(b, Strip(h))) :
                                            h \in HrefsAt(b)} : b \in S})

SvcUrls ==
    SvcClosure({_normalize_url(u) :
                   u \in StartInputs \cup RedirectTargets \cup {U_c}})

\* svc_link_of and _normalize_url on these URLs, computed once
SvcLinkTable ==
    [b \in SvcUrls |-> [h \in HrefsAt(b) |-> svc_link_of(b, Strip(h))]]

SvcNormTable == [u \in SvcUrls \cup RedirectTargets |-> _normalize_url(u)]

RECURSIVE svc_found(_, _)
svc_found(host_url, hrefs) ==
    IF hrefs = <<>> THEN <<>>
    ELSE SvcLinkTable[host_url][Head(hrefs)] \o svc_found(host_url, Tail(hrefs))

_extract_internal_links(base_url, hrefs, final_url) ==
    Dedupe(svc_found(OrDefault(final_url, base_url), hrefs), <<>>)

\* (r.headers.get("content-type") or "").split(";")[0].strip().lower()
svc_ctype(header) == Lower(Strip(Split(header, ";")[1]))

SvcCtypeTable == [c \in ContentTypes |-> svc_ctype(c)]

\* variant: the content type is not looked at
page_of_ignoring_ctype(url, resp, final_url, ctype) ==
    [pr |-> [url |-> SvcNormTable[url], final_url |-> final_url,
             content_type |-> ctype, title |-> resp.body.title,
             clean_text |-> resp.body.text],
     links |-> _extract_internal_links(url, resp.body.hrefs, final_url)]

\* scrape_page once the response is there
page_of(url, resp, final_url, ctype) ==
    IF ~Contains(ctype, <<"h","t","m","l">>)
    THEN [pr |-> [url |-> SvcNormTable[url], final_url |-> final_url,
                  content_type |-> ctype, title |-> "", clean_text |-> ""],
          links |-> <<>>]
    ELSE [pr |-> [url |-> SvcNormTable[url], final_url |-> final_url,
                  content_type |-> ctype, title |-> resp.body.title,
                  clean_text |-> resp.body.text],
          links |-> _extract_internal_links(url, resp.body.hrefs, final_url)]

\* scrape_page(url): (page_result, internal_links)
scrape_page(url, resp) ==
    IF resp.kind = "error" THEN [pr |-> None, links |-> <<>>]
    ELSE page_of(url, resp, SvcNormTable[OrDefault(resp.url, url)],
                 SvcCtypeTable[resp.ctype])

\* "max_pages * 5" of scrape_site
QueueCapFactor == 5

\* variant: a link is queued however long the queue is
svc_add_link_uncapped(u, st, seenNow, maxPages) ==
    [all_links |-> IF u \notin Range(st.all_links)
                   THEN Append(st.all_links, u) ELSE st.all_links,
     queue |-> IF u \notin seenNow /\ u \notin Range(st.queue)
               THEN Append(st.queue, u) ELSE st.queue]

\* variant: a link is listed in all_links only when it is queued
svc_add_link_listing_queued(u, st, seenNow, maxPages) ==
    IF /\ u \notin seenNow
       /\ u \notin Range(st.queue)
       /\ Len(st.queue) < maxPages * QueueCapFactor
    THEN [all_links |-> IF u \notin Range(st.all_links)
                        THEN Append(st.all_links, u) ELSE st.all_links,
          queue |-> Append(st.queue, u)]
    ELSE st

\* variant: a link is put at the head of the queue
svc_add_link_at_head(u, st, seenNow, maxPages) ==
    [all_links |-> IF u \notin Range(st.all_links)
                   THEN Append(st.all_links, u) ELSE st.all_links,
     queue |-> IF /\ u \notin seenNow
                  /\ u \notin Range(st.queue)
                  /\ Len(st.queue) < maxPages * QueueCapFactor
               THEN <<u>> \o st.queue ELSE st.queue]

\* the for loop over links of scrape_site: st holds all_links and queue
svc_add_link(u, st, seenNow, maxPages) ==
    [all_links |-> IF u \notin Range(st.all_links)
                   THEN Append(st.all_links, u) ELSE st.all_links,
     queue |-> IF /\ u \notin seenNow
                  /\ u \notin Range(st.queue)
                  /\ Len(st.queue) < maxPages * QueueCapFactor
               THEN Append(st.queue, u) ELSE st.queue]

RECURSIVE svc_add_links(_, _, _, _)
svc_add_links(links, st, seenNow, maxPages) ==
    IF links = <<>> THEN st
    ELSE svc_add_links(Tail(links),
                       svc_add_link(Head(links), st, seenNow, maxPages),
                       seenNow, maxPages)

\* the state scrape_site starts its loop in
svc_scrape_site_init(input, maxPages) ==
    /\ impl = "services"
    /\ start_input = input
    /\ max_pages = maxPages
    /\ start_url = _normalize_url(input)
    /\ pages = <<>>
    /\ all_links = <<>>
    /\ queue = <<_normalize_url(input)>>
    /\ seen = {}
    /\ final_root_url = _normalize_url(input)
    /\ log = <<>>
    /\ pc = "loop"

\* the rest of an iteration once the links are folded into st
svc_record(pr, st) ==
    /\ final_root_url' = IF Len(pages) = 0 /\ pr.final_url # <<>>
                         THEN pr.final_url ELSE final_root_url
    /\ pages' = Append(pages, pr)
    /\ all_links' = st.all_links
    /\ queue' = st.queue

\* variant: a failed URL is put back at the end of the queue
svc_on_failure_requeue(url) ==
    /\ queue' = Append(Tail(queue), url)
    /\ UNCHANGED <<pages, all_links, final_root_url>>

\* "if pr is None: continue"
svc_on_failure(url) ==
    /\ queue' = Tail(queue)
    /\ UNCHANGED <<pages, all_links, final_root_url>>

\* the rest of an iteration once scrape_page has returned r
svc_after_page(url, r) ==
    IF r.pr = None
    THEN svc_on_failure(url)
    ELSE svc_record(r.pr,
                    svc_add_links(r.links,
                                  [all_links |-> all_links, queue |-> Tail(queue)],
                                  seen \cup {url}, max_pages))

svc_visit(url) ==
    IF url \in seen
    THEN /\ queue' = Tail(queue)
         /\ UNCHANGED <<seen, pages, all_links, final_root_url, log>>
    ELSE \E resp \in Responses(url) :
           /\ seen' = seen \cup {url}
           /\ log' = Append(log, [url |-> url, outcome |-> Outcome(resp)])
           /\ svc_after_page(url, scrape_page(url, resp))

\* variant: the loop runs once more, "len(pages) <= max_pages"
svc_loop_condition_off_by_one == queue # <<>> /\ Len(pages) <= max_pages

\* "while queue and len(pages) < max_pages"
svc_loop_condition == queue # <<>> /\ Len(pages) < max_pages

\* one iteration of the while loop
svc_scrape_site_step ==
    /\ impl = "services"
    /\ pc = "loop"
    /\ svc_loop_condition
    /\ svc_visit(Head(queue))
    /\ UNCHANGED <<impl, start_input, max_pages, start_url, pc, ck>>

\* the loop condition fails: scrape_site returns its dict
svc_scrape_site_return ==
    /\ impl = "services"
    /\ pc = "loop"
    /\ ~svc_loop_condition
    /\ pc' = "done"
    /\ UNCHANGED <<impl, start_input, max_pages, start_url, queue, seen, pages,
                   all_links, final_root_url, log, ck>>

(***************************************************************************)
(* app.py: fetch_url, extract_internal_links and scrape_site               *)
(***************************************************************************)

\* extract_internal_links, once u is resolved and its fragment removed
app_keep(base_url, u) == IF same_site(base_url, u) THEN <<u>> ELSE <<>>

\* the loop body of extract_internal_links for one stripped a[href]
app_link_of(base_url, href) ==
    IF href = <<>> THEN <<>>
    ELSE IF \/ StartsWith(href, <<"#">>)
            \/ StartsWith(Lower(href), <<"m","a","i","l","t","o",":">>)
            \/ StartsWith(Lower(href),
                          <<"j","a","v","a","s","c","r","i","p","t",":">>)
         THEN <<>>
    ELSE app_keep(base_url, replace_fragment(urljoin(base_url, href)))

\* Every URL an app crawl can hold
RECURSIVE AppClosure(_)
AppClosure(S) ==
    IF \A b \in S : \A h \in HrefsAt(b) :
          Range(app_link_of(b, Strip(h))) \subseteq S
    THEN S
    ELSE AppClosure(S \cup UNION {UNION {Range(app_link_of(b, Strip(h))) :
                                            h \in HrefsAt(b)} : b \in S})

AppUrls ==
    AppClosure({normalize_url(u) : u \in StartInputs \cup {U_c}} \ {<<>>})

\* app_link_of on these URLs, computed once
AppLinkTable ==
    [b \in AppUrls |-> [h \in HrefsAt(b) |-> app_link_of(b, Strip(h))]]

RECURSIVE app_found(_, _)
app_found(base_url, hrefs) ==
    IF hrefs = <<>> THEN <<>>
    ELSE AppLinkTable[base_url][Head(hrefs)] \o app_found(base_url, Tail(hrefs))

extract_internal_links(base_url, hrefs) ==
    Dedupe(app_found(base_url, hrefs), <<>>)

\* url.lower().endswith((".htm", ".html", "/"))
LooksLikeHtmlUrl(url) ==
    \/ EndsWith(Lower(url), <<".","h","t","m">>)
    \/ EndsWith(Lower(url), <<".","h","t","m","l">>)
    \/ EndsWith(Lower(url), <<"/">>)

\* fetch_url's test for "obvious non-html", ctype lower-cased
SkipsAsNonHtml(url, ctype) ==
    /\ ~Contains(ctype, <<"t","e","x","t","/","h","t","m","l">>)
    /\ ~Contains(ctype, <<"a","p","p","l","i","c","a","t","i","o","n",
                          "/","x","h","t","m","l">>)
    /\ ~LooksLikeHtmlUrl(url)

AppSkipTable ==
    [u \in AppUrls |-> [c \in ContentTypes |-> SkipsAsNonHtml(u, Lower(c))]]

\* fetch_url(url): the document, or None for an exception (raise_for_status
\* included) and for a response it takes for non-HTML
fetch_url(url, resp) ==
    IF resp.kind = "error" THEN None
    ELSE IF AppSkipTable[url][resp.ctype] THEN None
    ELSE resp.body

\* "max_pages * 20" of scrape_site
SeenCapFactor == 20

\* variant: a link is queued whether or not it is in seen
app_add_link_no_seen_check(u, st, maxPages) ==
    IF Cardinality(st.seen) < maxPages * SeenCapFactor
    THEN [seen |-> st.seen \cup {u}, queue |-> Append(st.queue, u)]
    ELSE st

\* the for loop over extract_internal_links of scrape_site: st holds seen
\* and queue
app_add_link(u, st, maxPages) ==
    IF u \notin st.seen /\ Cardinality(st.seen) < maxPages * SeenCapFactor
    THEN [seen |-> st.seen \cup {u}, queue |-> Append(st.queue, u)]
    ELSE st

RECURSIVE app_add_links(_, _, _)
app_add_links(links, st, maxPages) ==
    IF links = <<>> THEN st
    ELSE app_add_links(Tail(links), app_add_link(Head(links), st, maxPages),
                       maxPages)

\* the state scrape_site starts its loop in, or has returned in when the
\* normalised start_url is empty
app_scrape_site_init(input, maxPages) ==
    /\ impl = "app"
    /\ start_input = input
    /\ max_pages = maxPages
    /\ start_url = normalize_url(input)
    /\ pages = <<>>
    /\ all_links = <<>>
    /\ final_root_url = <<>>
    /\ log = <<>>
    /\ IF normalize_url(input) = <<>>
       THEN queue = <<>> /\ seen = {} /\ pc = "done"
       ELSE /\ queue = <<normalize_url(input)>>
            /\ seen = {normalize_url(input)}
            /\ pc = "loop"

\* the rest of an iteration once the links are folded into st
app_record(url, html, st) ==
    /\ pages' = Append(pages, [url |-> url, text |-> html.text])
    /\ seen' = st.seen
    /\ queue' = st.queue

\* the rest of an iteration once fetch_url has returned html
app_after_fetch(url, html) ==
    IF html = None \/ html = EmptyBody
    THEN /\ queue' = Tail(queue)
         /\ UNCHANGED <<seen, pages>>
    ELSE app_record(url, html,
                    app_add_links(extract_internal_links(url, html.hrefs),
                                  [seen |-> seen, queue |-> Tail(queue)],
                                  max_pages))

app_visit(url) ==
    \E resp \in Responses(url) :
      /\ log' = Append(log, [url |-> url, outcome |-> Outcome(resp)])
      /\ app_after_fetch(url, fetch_url(url, resp))

\* "while queue and len(pages) < max_pages"
app_loop_condition == queue # <<>> /\ Len(pages) < max_pages

\* one iteration of the while loop
app_scrape_site_step ==
    /\ impl = "app"
    /\ pc = "loop"
    /\ app_loop_condition
    /\ app_visit(Head(queue))
    /\ UNCHANGED <<impl, start_input, max_pages, start_url, pc, all_links,
                   final_root_url, ck>>

\* the loop condition fails: scrape_site returns pages
app_scrape_site_return ==
    /\ impl = "app"
    /\ pc = "loop"
    /\ ~app_loop_condition
    /\ pc' = "done"
    /\ UNCHANGED <<impl, start_input, max_pages, start_url, queue, seen, pages,
                   all_links, final_root_url, log, ck>>

(***************************************************************************)
(* services/text_cleaner.py                                                *)
(***************************************************************************)

\* text.replace("\r\n", "\n").replace("\r", "\n")
RECURSIVE NormalizeNewlines(_)
NormalizeNewlines(t) ==
    IF t = <<>> THEN <<>>
    ELSE IF Len(t) >= 2 /\ t[1] = "\r" /\ t[2] = "\n"
         THEN <<"\n">> \o NormalizeNewlines(Drop(t, 2))
    ELSE IF t[1] = "\r" THEN <<"\n">> \o NormalizeNewlines(Tail(t))
    ELSE <<t[1]>> \o NormalizeNewlines(Tail(t))

\* variant of _WS_RE.sub: blanks are merged two by two, so a run of three
\* becomes two
RECURSIVE CollapseBlanks_pairwise(_)
CollapseBlanks_pairwise(line) ==
    IF line = <<>> THEN <<>>
    ELSE IF line[1] \in {" ", "\t"}
         THEN IF Len(line) >= 2 /\ line[2] \in {" ", "\t"}
              THEN <<" ">> \o CollapseBlanks_pairwise(Tail(Tail(line)))
              ELSE <<" ">> \o CollapseBlanks_pairwise(Tail(line))
    ELSE <<line[1]>> \o CollapseBlanks_pairwise(Tail(line))

\* _WS_RE.sub(" ", line): every run of spaces and tabs becomes one space
RECURSIVE CollapseBlanks(_)
CollapseBlanks(line) ==
    IF line = <<>> THEN <<>>
    ELSE IF line[1] \in {" ", "\t"}
         THEN IF Len(line) >= 2 /\ line[2] \in {" ", "\t"}
              THEN CollapseBlanks(Tail(line))
              ELSE <<" ">> \o CollapseBlanks(Tail(line))
    ELSE <<line[1]>> \o CollapseBlanks(Tail(line))

\* the "len(line) < 25" of clean_text
NoiseLineLen == 25

\* re.search(r"[0-9]|[.,;:()]", line)
LooksMeaningful(line) ==
    \E i \in 1..Len(line) : line[i] \in Digits \cup {".", ",", ";", ":", "(", ")"}

\* the loop of clean_text: lines is the list built so far
RECURSIVE clean_lines(_, _)
clean_lines(raw, lines) ==
    IF raw = <<>> THEN lines
    ELSE clean_lines(Tail(raw),
           IF Strip(CollapseBlanks(Head(raw))) = <<>> THEN lines
           ELSE IF /\ Len(Strip(CollapseBlanks(Head(raw)))) < NoiseLineLen
                   /\ ~LooksMeaningful(Strip(CollapseBlanks(Head(raw))))
                THEN lines
           ELSE Append(lines, Strip(CollapseBlanks(Head(raw)))))

\* _MULTI_NL_RE.sub("\n\n", t): every run of two or more "\n" becomes two
RECURSIVE CollapseNewlines(_)
CollapseNewlines(t) ==
    IF Len(t) < 2 THEN t
    ELSE IF t[1] = "\n" /\ t[2] = "\n"
         THEN IF Len(t) >= 3 /\ t[3] = "\n"
              THEN CollapseNewlines(Tail(t))
              ELSE <<"\n", "\n">> \o CollapseNewlines(Drop(t, 2))
    ELSE <<t[1]>> \o CollapseNewlines(Tail(t))

clean_text(text) ==
    IF text = <<>> THEN <<>>
    ELSE Strip(CollapseNewlines(
           Join(clean_lines(Split(NormalizeNewlines(text), "\n"), <<>>),
                <<"\n">>)))

\* variant: every slice but the last is one character longer, t[start:end+1]
RECURSIVE chunk_loop_long_slices(_, _, _, _, _)
chunk_loop_long_slices(t, start, max_chars, step, chunks) ==
    IF ~(start < Len(t)) THEN chunks
    ELSE IF start + max_chars >= Len(t)
         THEN IF Strip(SubSeq(t, start + 1, Len(t))) # <<>>
              THEN Append(chunks, Strip(SubSeq(t, start + 1, Len(t))))
              ELSE chunks
    ELSE chunk_loop_long_slices(t, start + step, max_chars, step,
           IF Strip(SubSeq(t, start + 1, start + max_chars + 1)) # <<>>
           THEN Append(chunks,
                       Strip(SubSeq(t, start + 1, start + max_chars + 1)))
           ELSE chunks)

\* the while loop of _chunk_by_chars; start counts from 0 as in the code
RECURSIVE chunk_loop(_, _, _, _, _)
chunk_loop(t, start, max_chars, step, chunks) ==
    IF ~(start < Len(t)) THEN chunks
    ELSE IF start + max_chars >= Len(t)
         THEN IF Strip(SubSeq(t, start + 1, Len(t))) # <<>>
              THEN Append(chunks, Strip(SubSeq(t, start + 1, Len(t))))
              ELSE chunks
    ELSE chunk_loop(t, start + step, max_chars, step,
                    IF Strip(SubSeq(t, start + 1, start + max_chars)) # <<>>
                    THEN Append(chunks,
                                Strip(SubSeq(t, start + 1, start + max_chars)))
                    ELSE chunks)

\* variant: the step is one character short of max_chars, so that
\* neighbouring slices share a character
chunk_step_one_short(max_chars, overlap) ==
    IF max_chars > 1 THEN max_chars - 1 ELSE max_chars

\* variant: the step is always max_chars, whatever the overlap
chunk_step_ignoring_overlap(max_chars, overlap) == max_chars

\* variant: without the guard "if step <= 0: step = max_chars"
chunk_step_unguarded(max_chars, overlap) ==
    max_chars - (IF overlap > 0 THEN overlap ELSE 0)

\* step = max_chars - max(overlap, 0); if step <= 0: step = max_chars
chunk_step(max_chars, overlap) ==
    IF max_chars - (IF overlap > 0 THEN overlap ELSE 0) <= 0
    THEN max_chars
    ELSE max_chars - (IF overlap > 0 THEN overlap ELSE 0)

_chunk_by_chars(text, max_chars, overlap) ==
    IF text = <<>> THEN <<>>
    ELSE IF max_chars <= 0 THEN <<text>>
    ELSE chunk_loop(Strip(text), 0, max_chars, chunk_step(max_chars, overlap),
                    <<>>)

\* re.split(r"\n{2,}", cleaned): cut at every run of two or more "\n"
RECURSIVE SplitParagraphs(_, _)
SplitParagraphs(t, cur) ==
    IF t = <<>> THEN <<cur>>
    ELSE IF Len(t) >= 2 /\ t[1] = "\n" /\ t[2] = "\n"
         THEN <<cur>> \o SplitParagraphs(LStripNewlines(t), <<>>)
    ELSE SplitParagraphs(Tail(t), Append(cur, t[1]))

\* [p.strip() for p in ... if len(p.strip()) > 0]
RECURSIVE StripAll(_)
StripAll(ps) ==
    IF ps = <<>> THEN <<>>
    ELSE (IF Strip(Head(ps)) # <<>> THEN <<Strip(Head(ps))>> ELSE <<>>)
         \o StripAll(Tail(ps))

\* text.replace("\r", "\n") of clean_text_basic
ReplaceCr(text) ==
    [i \in 1..Len(text) |-> IF text[i] = "\r" THEN "\n" ELSE text[i]]

\* the length of the run of characters of S that t starts with
RECURSIVE RunLength(_, _)
RunLength(t, S) ==
    IF t # <<>> /\ t[1] \in S THEN 1 + RunLength(Tail(t), S) ELSE 0

\* re.sub(r"\n{3,}", "\n\n", text)
RECURSIVE CollapseBlankLines(_)
CollapseBlankLines(t) ==
    IF t = <<>> THEN <<>>
    ELSE IF RunLength(t, {"\n"}) >= 3
         THEN <<"\n", "\n">>
              \o CollapseBlankLines(Drop(t, RunLength(t, {"\n"})))
    ELSE <<t[1]>> \o CollapseBlankLines(Tail(t))

\* re.sub(r"[ \t]{2,}", " ", text): a single tab stays a tab
RECURSIVE CollapseBlankRuns(_)
CollapseBlankRuns(t) ==
    IF t = <<>> THEN <<>>
    ELSE IF RunLength(t, {" ", "\t"}) >= 2
         THEN <<" ">> \o CollapseBlankRuns(Drop(t, RunLength(t, {" ", "\t"})))
    ELSE <<t[1]>> \o CollapseBlankRuns(Tail(t))

\* app.py: lines stripped, the empty ones dropped, joined by "\n"
clean_text_basic(text) ==
    Strip(Join(StripAll(Split(CollapseBlankRuns(CollapseBlankLines(
                                  ReplaceCr(text))), "\n")),
               <<"\n">>))

\* decimal digits of a natural number
RECURSIVE DecDigits(_)
DecDigits(n) ==
    IF n < 10 THEN <<DigitChars[n + 1]>>
    ELSE DecDigits(n \div 10) \o <<DigitChars[(n % 10) + 1]>>

\* f"{idx:03d}"
RECURSIVE ZeroPad(_, _)
ZeroPad(d, width) == IF Len(d) >= width THEN d ELSE ZeroPad(<<"0">> \o d, width)

\* variant: f"{idx}", no padding
chunk_id_unpadded(idx) == DecDigits(idx)

chunk_id_of(idx) == ZeroPad(DecDigits(idx), 3)

\* the loop that builds the chunk dicts; idx counts from 0 (section_heading
\* is always None and source_url_refs_in_text only lists URLs found in the
\* text; neither is carried here)
RECURSIVE enumerate_chunks(_, _, _)
enumerate_chunks(raw_chunks, idx, page_url) ==
    IF raw_chunks = <<>> THEN <<>>
    ELSE <<[chunk_id |-> chunk_id_of(idx), page_url |-> page_url,
            chunk_index |-> idx, text |-> Head(raw_chunks),
            char_count |-> Len(Head(raw_chunks))]>>
         \o enumerate_chunks(Tail(raw_chunks), idx + 1, page_url)

\* chunk_text_with_provenance after the calling convention is settled
chunk_cleaned(cleaned, page_url, max_chars, overlap) ==
    IF cleaned = <<>> THEN <<>>
    ELSE enumerate_chunks(
           _chunk_by_chars(Join(StripAll(SplitParagraphs(cleaned, <<>>)),
                                <<"\n", "\n">>),
                           max_chars, overlap),
           0, page_url)

\* Python values as the call carries them
PyStr(v) == [t |-> "str", v |-> v]

PyInt(n) == [t |-> "int", v |-> n]

Absent == [t |-> "absent", v |-> 0]

\* kwargs.get(key, default)
KwGet(kwargs, key, default) ==
    IF kwargs[key] = Absent THEN default ELSE kwargs[key].v

\* the defaults of chunk_text_with_provenance
DefaultChunkSize == 900

DefaultMaxChars == 1800

DefaultOverlap == 150

\* "Detect calling convention"
IsOldStyle(args) ==
    /\ Len(args) >= 2
    /\ args[1].t = "str"
    /\ args[2].t = "str"
    /\ \/ StartsWith(args[1].v, HTTP \o SlashSlash)
       \/ StartsWith(args[1].v, HTTPS \o SlashSlash)

chunk_text_with_provenance(args, kwargs) ==
    IF IsOldStyle(args)
    THEN chunk_cleaned(clean_text(args[2].v), args[1].v,
                       KwGet(kwargs, "chunk_size", DefaultChunkSize), 0)
    ELSE chunk_cleaned(
           clean_text(IF Len(args) >= 1 /\ args[1].t = "str" THEN args[1].v
                      ELSE KwGet(kwargs, "text", <<>>)),
           KwGet(kwargs, "page_url", <<>>),
           KwGet(kwargs, "max_chars", DefaultMaxChars),
           KwGet(kwargs, "overlap", DefaultOverlap))

\* the for loop of chunk_text: st holds chunks and buffer
RECURSIVE chunk_text_loop(_, _, _)
chunk_text_loop(lines, chunk_size, st) ==
    IF lines = <<>> THEN st
    ELSE chunk_text_loop(Tail(lines), chunk_size,
           IF Len(st.buffer) + Len(Head(lines)) < chunk_size
           THEN [chunks |-> st.chunks,
                 buffer |-> st.buffer \o <<" ">> \o Head(lines)]
           ELSE [chunks |-> Append(st.chunks, Strip(st.buffer)),
                 buffer |-> Head(lines)])

\* "if buffer: chunks.append(buffer.strip())"
chunk_text_flush(st) ==
    IF st.buffer # <<>> THEN Append(st.chunks, Strip(st.buffer)) ELSE st.chunks

chunk_text(lines, chunk_size) ==
    chunk_text_flush(chunk_text_loop(lines, chunk_size,
                                     [chunks |-> <<>>, buffer |-> <<>>]))

(***************************************************************************)
(* The crawl specification                                                 *)
(***************************************************************************)

Idle == [phase |-> "idle"]

Init ==
    /\ ck = Idle
    /\ \E input \in StartInputs, maxPages \in 0..MaxPagesBound :
          \/ svc_scrape_site_init(input, maxPages)
          \/ app_scrape_site_init(input, maxPages)

Next ==
    \/ svc_scrape_site_step
    \/ svc_scrape_site_return
    \/ app_scrape_site_step
    \/ app_scrape_site_return

Spec == Init /\ [][Next]_vars

(***************************************************************************)
(* The same crawlers on the link-heavy site                                *)
(***************************************************************************)

MaxPagesFanOut == 3

FanOutInit ==
    /\ ck = Idle
    /\ \E maxPages \in 0..MaxPagesFanOut :
          \/ svc_scrape_site_init(U_c, maxPages)
          \/ app_scrape_site_init(U_c, maxPages)

SpecFanOut == FanOutInit /\ [][Next]_vars

(***************************************************************************)
(* Properties of the crawlers                                              *)
(***************************************************************************)

\* C1: in every state of a crawl, and so in the returned result, the number
\* of recorded pages is at most max_pages; with max_pages = 0 there is none.
C1_PageBound ==
    /\ Len(pages) <= max_pages
    /\ max_pages = 0 => pages = <<>>

\* a crawl that returned with max_pages >= 2 pages while URLs were still queued
C1_Witness ==
    /\ pc = "done"
    /\ max_pages >= 2
    /\ Len(pages) = max_pages
    /\ queue # <<>>

FetchedOnce ==
    \A i, j \in 1..Len(log) : log[i].url = log[j].url => i = j

OnePagePerUrl ==
    \A i, j \in 1..Len(pages) : pages[i].url = pages[j].url => i = j

\* a pass through the loop body
LoopIteration == pc = "loop" /\ pc' = "loop" /\ vars' # vars

\* the pair (pages still allowed, queue length) gets smaller in the
\* lexicographic order; neither part is ever negative
LoopVariantDecreases ==
    /\ max_pages - Len(pages) > 0
    /\ \/ Len(pages') = Len(pages) + 1
       \/ pages' = pages /\ Len(queue) > 0 /\ Len(queue') = Len(queue) - 1

\* C2: whatever the pages link to, each other included, every URL is fetched
\* at most once, pages holds at most one record per URL, and the loop
\* cannot run forever: each iteration either records a page, of which at
\* most max_pages are allowed, or leaves pages alone and shortens the queue.
C2_CycleTerminates ==
    /\ [](FetchedOnce /\ OnePagePerUrl)
    /\ [][LoopIteration => LoopVariantDecreases]_vars

\* a returned crawl of https://a/ and https://a/p in which both URLs were
\* found as links, https://a/ after it had been fetched, and nothing is left
C2_Witness ==
    /\ pc = "done"
    /\ Len(log) = 2
    /\ log[1].url = U_a /\ log[2].url = U_ap
    /\ Len(pages) = 2
    /\ all_links = <<U_ap, U_a>>
    /\ queue = <<>>

\* the start URL as resolved: services/scraper.py keeps it in final_root_url,
\* app.py has only the normalised start_url
ResolvedStart == IF impl = "services" THEN final_root_url ELSE start_url

\* C3 as stated, for the host alone: no URL in the result's links or in the
\* fetch queue has a host other than that of the resolved start URL.
C3_SameSiteAsStart ==
    impl \in {"services", "app"} =>
        \A u \in Range(all_links) \cup Range(queue) :
            hostname(u) = hostname(ResolvedStart)

\* a step that issued a fetch with the given outcome
Fetched(outcome) ==
    /\ Len(log') = Len(log) + 1
    /\ log'[Len(log')].outcome = outcome

NoRetry ==
    \A i, j \in 1..Len(log) :
        (log[i].outcome = "error" /\ i < j) => log[j].url # log[i].url

\* C4: a failed fetch of the dequeued URL adds no page record and no links,
\* the URL is not fetched again, and the run is not cut short: the loop goes
\* on with the rest of the queue, from where it returns its result.
C4_FailureSkipped ==
    /\ [][Fetched("error") =>
            /\ log'[Len(log')].url = Head(queue)
            /\ pages' = pages
            /\ all_links' = all_links
            /\ queue' = Tail(queue)
            /\ pc' = "loop"]_vars
    /\ []NoRetry

\* a returned crawl in which a failed fetch was followed by a successful one
C4_Witness ==
    /\ pc = "done"
    /\ \E i \in 1..(Len(log) - 1) :
          /\ log[i].outcome = "error"
          /\ log[i + 1].outcome = "html"
          /\ \E k \in 1..Len(pages) : pages[k].url = log[i + 1].url

\* C5 as stated: with an empty start_url there is no page, no link and no
\* fetch.
C5_EmptyStartNoFetch ==
    (impl \in {"services", "app"} /\ start_input = <<>>) =>
        (pages = <<>> /\ all_links = <<>> /\ log = <<>>)

\* the last page record is one of an empty document
EmptyRecordAdded ==
    /\ Len(pages') = Len(pages) + 1
    /\ pages'[Len(pages')].url = Head(queue)
    /\ IF impl = "services"
       THEN /\ pages'[Len(pages')].title = ""
            /\ pages'[Len(pages')].clean_text = ""
       ELSE pages'[Len(pages')].text = ""

NoLinksAdded == all_links' = all_links /\ queue' = Tail(queue)

MaxTextLen == 4

MaxCharsBound == 3

MaxOverlap == 2

\* clean_text keeps a short line only if it holds a digit or punctuation
TextChars == {"1", "a", " ", "\n"}

\* documents of two paragraphs, a blank line between them
T_paragraphs == <<"1", "\n", "\n", "1", "1">>

T_sentences == <<"1", "a", ".", "\n", "\n", "a", "1", " ", "a">>

DocumentTexts == {T_paragraphs, T_sentences}

Texts == SeqsUpTo(TextChars, MaxTextLen) \cup DocumentTexts

U_page == <<"h","t","t","p",":","/","/","a">>

U_pageUpper == <<"H","T","T","P",":","/","/","a">>

SourceUrls == {U_page, U_pageUpper}

NoKwargs ==
    [chunk_size |-> Absent, max_chars |-> Absent, overlap |-> Absent,
     page_url |-> Absent, text |-> Absent]

\* chunk_text_with_provenance(page_url, text, chunk_size=...)
OldStyleCall(source_url, text, limit) ==
    [fn |-> "chunk_text_with_provenance", shape |-> "old",
     source_url |-> source_url, text |-> text, max_chars |-> limit,
     overlap |-> 0,
     args |-> <<PyStr(source_url), PyStr(text)>>,
     kwargs |-> [NoKwargs EXCEPT !.chunk_size = PyInt(limit)]]

\* chunk_text_with_provenance(text, max_chars=..., overlap=..., page_url=...)
NewStyleCall(source_url, text, limit, overlap) ==
    [fn |-> "chunk_text_with_provenance", shape |-> "new",
     source_url |-> source_url, text |-> text, max_chars |-> limit,
     overlap |-> overlap,
     args |-> <<PyStr(text)>>,
     kwargs |-> [NoKwargs EXCEPT !.max_chars = PyInt(limit),
                                 !.overlap = PyInt(overlap),
                                 !.page_url = PyStr(source_url)]]

\* chunk_text(lines, chunk_size=...), on the lines of a text
LegacyCall(text, limit) ==
    [fn |-> "chunk_text", shape |-> "lines",
     source_url |-> <<>>, text |-> text, max_chars |-> limit, overlap |-> 0,
     args |-> Split(text, "\n"), kwargs |-> NoKwargs]

\* the call of one of the shapes for these values
CallOf(shape, u, t, m, o) ==
    IF shape = "old" THEN OldStyleCall(u, t, m)
    ELSE IF shape = "new" THEN NewStyleCall(u, t, m, o)
    ELSE LegacyCall(t, m)

NoCrawl ==
    /\ impl = "none"
    /\ start_input = <<>>
    /\ max_pages = 0
    /\ start_url = <<>>
    /\ pc = "done"
    /\ queue = <<>>
    /\ seen = {}
    /\ pages = <<>>
    /\ all_links = <<>>
    /\ final_root_url = <<>>
    /\ log = <<>>

ChunkInit ==
    /\ NoCrawl
    /\ \E shape \in {"old", "new", "lines"}, u \in SourceUrls, t \in Texts,
          m \in (-1)..MaxCharsBound, o \in (-1)..MaxOverlap :
          ck = [phase |-> "call", call |-> CallOf(shape, u, t, m, o),
                out |-> <<>>]

crawl_vars ==
    <<impl, start_input, max_pages, start_url, pc, queue, seen, pages,
      all_links, final_root_url, log>>

chunk_text_with_provenance_call ==
    /\ ck.phase = "call"
    /\ ck.call.fn = "chunk_text_with_provenance"
    /\ ck' = [ck EXCEPT !.phase = "returned",
                        !.out = chunk_text_with_provenance(ck.call.args,
                                                           ck.call.kwargs)]
    /\ UNCHANGED crawl_vars

chunk_text_call ==
    /\ ck.phase = "call"
    /\ ck.call.fn = "chunk_text"
    /\ ck' = [ck EXCEPT !.phase = "returned",
                        !.out = chunk_text(ck.call.args, ck.call.max_chars)]
    /\ UNCHANGED crawl_vars

ChunkNext ==
    \/ chunk_text_with_provenance_call
    \/ chunk_text_call

SpecChunk == ChunkInit /\ [][ChunkNext]_vars

(***************************************************************************)
(* Properties of the chunkers                                              *)
(***************************************************************************)

Returned(fn) == ck.phase = "returned" /\ ck.call.fn = fn

\* the texts of the returned chunks, in order
OutTexts ==
    IF ck.call.fn = "chunk_text" THEN ck.out
    ELSE [i \in 1..Len(ck.out) |-> ck.out[i].text]

TakenForNewStyle ==
    /\ ck.call.shape = "old"
    /\ ~StartsWith(ck.call.source_url, HTTP \o SlashSlash)
    /\ ~StartsWith(ck.call.source_url, HTTPS \o SlashSlash)

\* the limit and the text chunk_text_with_provenance works with
EffectiveLimit ==
    IF TakenForNewStyle THEN DefaultMaxChars ELSE ck.call.max_chars

EffectiveText ==
    IF TakenForNewStyle THEN ck.call.source_url ELSE ck.call.text

C8_NoEmptyChunk ==
    (/\ ck.phase = "returned"
     /\ ck.call.max_chars >= 1
     /\ Strip(ck.call.text) # <<>>) =>
        \A i \in 1..Len(OutTexts) : Strip(OutTexts[i]) # <<>>

\* the number a string of decimal digits writes
RECURSIVE DecimalValue(_)
DecimalValue(d) ==
    IF d = <<>> THEN 0
    ELSE 10 * DecimalValue(SubSeq(d, 1, Len(d) - 1))
         + (CHOOSE n \in 0..9 : DigitChars[n + 1] = d[Len(d)])

\* the first place at or after from where needle occurs in t, 0 if none
FirstOccurrence(t, needle, from) ==
    LET I == {i \in from..(Len(t) - Len(needle) + 1) :
                 SubSeq(t, i, i + Len(needle) - 1) = needle}
    IN  IF I = {} THEN 0 ELSE SetMin(I)

\* the texts occur in t one after the other, none before its predecessor
RECURSIVE OccurInOrder(_, _, _)
OccurInOrder(t, texts, from) ==
    IF texts = <<>> THEN TRUE
    ELSE /\ FirstOccurrence(t, Head(texts), from) # 0
         /\ OccurInOrder(t, Tail(texts),
                         FirstOccurrence(t, Head(texts), from))

\* C9: the k-th chunk of a call, counting from 0, has as chunk_id the three
\* digits that write k and k as chunk_index, so ids are unique, gapless and
\* increasing, and the chunk texts occur in the cleaned document in that
\* order.
C9_OrdinalIds ==
    Returned("chunk_text_with_provenance") =>
        /\ \A k \in 1..Len(ck.out) :
              /\ Len(ck.out[k].chunk_id) = 3
              /\ \A j \in 1..3 : ck.out[k].chunk_id[j] \in Digits
              /\ DecimalValue(ck.out[k].chunk_id) = k - 1
              /\ ck.out[k].chunk_index = k - 1
        /\ OccurInOrder(clean_text(EffectiveText), OutTexts, 1)

\* a call that returned at least three chunks, the third with id "002"
C9_Witness ==
    /\ Returned("chunk_text_with_provenance")
    /\ Len(ck.out) >= 3
    /\ ck.out[3].chunk_id = <<"0", "0", "2">>
    /\ ck.out[3].text # ck.out[1].text

\* C10 as stated: in either call shape every chunk carries the source_url
\* the caller passed as its page URL, and its text comes from the text
\* argument.
C10_Provenance ==
    Returned("chunk_text_with_provenance") =>
        \A i \in 1..Len(ck.out) :
            /\ ck.out[i].page_url = ck.call.source_url
            /\ Contains(clean_text(ck.call.text), ck.out[i].text)

\* the paragraphs of a text as the chunker would see them: the pieces
\* between runs of blank lines, each one cleaned, the empty ones left out
RECURSIVE CleanAll(_)
CleanAll(ps) ==
    IF ps = <<>> THEN <<>>
    ELSE (IF clean_text(Head(ps)) # <<>> THEN <<clean_text(Head(ps))>>
          ELSE <<>>)
         \o CleanAll(Tail(ps))

ParagraphsOf(text) == CleanAll(SplitParagraphs(NormalizeNewlines(text), <<>>))

\* C11 as stated: chunks are flushed on paragraph boundaries, so a paragraph
\* of the text that is no longer than max_chars lies whole inside one chunk.
C11_ParagraphNotSplit ==
    (/\ Returned("chunk_text_with_provenance")
     /\ ck.call.shape = "new"
     /\ ck.call.max_chars >= 1) =>
        \A k \in 1..Len(ParagraphsOf(ck.call.text)) :
            Len(ParagraphsOf(ck.call.text)[k]) <= ck.call.max_chars =>
                \E i \in 1..Len(ck.out) :
                    Contains(ck.out[i].text, ParagraphsOf(ck.call.text)[k])

\* the overlap chunk_text_with_provenance works with
EffectiveOverlap ==
    IF TakenForNewStyle THEN DefaultOverlap
    ELSE IF ck.call.shape = "old" THEN 0
    ELSE ck.call.overlap

\* the chunks laid end to end
RECURSIVE Flatten(_)
Flatten(chunks) ==
    IF chunks = <<>> THEN <<>> ELSE Head(chunks) \o Flatten(Tail(chunks))

\* t is made of the chunks one after the other, with nothing but whitespace
\* before, between and after them
RECURSIVE PiecesOf(_, _)
PiecesOf(t, chunks) ==
    IF chunks = <<>> THEN Strip(t) = <<>>
    ELSE /\ StartsWith(LStrip(t), Head(chunks))
         /\ PiecesOf(Drop(LStrip(t), Len(Head(chunks))), Tail(chunks))

\* C12 as stated: without overlap the chunks partition the cleaned text, so
\* laid end to end they are the cleaned text, no character repeated and none
\* dropped.
C12_ChunksPartitionText ==
    (Returned("chunk_text_with_provenance") /\ EffectiveOverlap <= 0) =>
        Flatten(OutTexts) = clean_text(EffectiveText)

\* C12 as the code has it: without overlap the chunks are consecutive pieces
\* of the cleaned text, in order and sharing no character, and the
\* characters of the text that are in no chunk are whitespace at the edges
\* of the slices.
C12_ChunksPartitionUpToWhitespace ==
    (Returned("chunk_text_with_provenance") /\ EffectiveOverlap <= 0) =>
        PiecesOf(clean_text(EffectiveText), OutTexts)

\* a call without overlap that cut the text into two chunks or more and
\* dropped whitespace between them
C12_Witness ==
    /\ Returned("chunk_text_with_provenance")
    /\ ck.call.shape = "new"
    /\ ck.call.overlap = 0
    /\ Len(ck.out) >= 2
    /\ Flatten(OutTexts) # clean_text(ck.call.text)

\* s[-n:] for n >= 1
LastChars(s, n) == SubSeq(s, IF Len(s) > n THEN Len(s) - n + 1 ELSE 1, Len(s))

\* C13 as stated: with an overlap above 0 every chunk after the first
\* begins with the trailing overlap characters of the chunk before it.
C13_ChunkBeginsWithOverlap ==
    (Returned("chunk_text_with_provenance") /\ EffectiveOverlap > 0) =>
        \A k \in 2..Len(ck.out) :
            StartsWith(ck.out[k].text,
                       LastChars(ck.out[k - 1].text, EffectiveOverlap))

\* C13 as the code has it: with 0 < overlap < max_chars neighbouring slices
\* share overlap characters, so a chunk begins with the trailing overlap
\* characters of the chunk before it whenever stripping took nothing from
\* them (the chunk before is max_chars long and those characters do not
\* begin with whitespace); with overlap >= max_chars the slices share
\* nothing and the chunks are consecutive pieces of the text.
C13_OverlapOfSlices ==
    (Returned("chunk_text_with_provenance") /\ EffectiveOverlap > 0
        /\ EffectiveLimit >= 1) =>
        IF EffectiveOverlap < EffectiveLimit
        THEN \A k \in 2..Len(ck.out) :
                (/\ Len(ck.out[k - 1].text) = EffectiveLimit
                 /\ LastChars(ck.out[k - 1].text, EffectiveOverlap)[1]
                        \notin Whitespace) =>
                    StartsWith(ck.out[k].text,
                               LastChars(ck.out[k - 1].text,
                                         EffectiveOverlap))
        ELSE PiecesOf(clean_text(EffectiveText), OutTexts)

\* a call with max_chars = 2 and overlap = 1 whose second chunk begins with
\* the last character of the first
C13_Witness ==
    /\ Returned("chunk_text_with_provenance")
    /\ ck.call.shape = "new"
    /\ ck.call.max_chars = 2
    /\ ck.call.overlap = 1
    /\ Len(ck.out) >= 2
    /\ ck.out[1].text = <<"1", "a">>
    /\ ck.out[2].text[1] = "a"

(***************************************************************************)
(* The cleaning specification: a cleaner is applied to a text, then to its *)
(* own result                                                              *)
(***************************************************************************)

MaxCleanLen == 4

CleanChars == {"a", "1", " ", "\t", "\n", "\r"}

\* a line of n letters
Letters(n) == [i \in 1..n |-> "a"]

\* lines at the length where clean_text stops dropping lines without a digit
\* or punctuation
LongLines ==
    {Letters(NoiseLineLen), Letters(NoiseLineLen - 1),
     Letters(12) \o <<" ", " ">> \o Letters(12),
     Letters(12) \o <<" ", "\t", " ">> \o Letters(11)}

T_spacedLetters == <<"a", " ", " ", " ", "b", "\n", "\n", "\n", "\n", "c">>

T_spacedDigits == <<"1", " ", " ", " ", "2", "\n", "\n", "\n", "\n", "3">>

CleanInputs ==
    SeqsUpTo(CleanChars, MaxCleanLen) \cup LongLines
        \cup {T_spacedLetters, T_spacedDigits}

CleanInit ==
    /\ NoCrawl
    /\ \E fn \in {"clean_text", "clean_text_basic"}, t \in CleanInputs :
          ck = [phase |-> "call", call |-> [fn |-> fn, text |-> t],
                out |-> <<>>, again |-> <<>>]

clean_text_call ==
    /\ ck.phase = "call"
    /\ ck.call.fn = "clean_text"
    /\ ck' = [ck EXCEPT !.phase = "cleaned", !.out = clean_text(ck.call.text)]
    /\ UNCHANGED crawl_vars

clean_text_basic_call ==
    /\ ck.phase = "call"
    /\ ck.call.fn = "clean_text_basic"
    /\ ck' = [ck EXCEPT !.phase = "cleaned",
                        !.out = clean_text_basic(ck.call.text)]
    /\ UNCHANGED crawl_vars

\* the same cleaner applied to what it returned
clean_again ==
    /\ ck.phase = "cleaned"
    /\ ck' = [ck EXCEPT !.phase = "recleaned",
                        !.again = IF ck.call.fn = "clean_text"
                                  THEN clean_text(ck.out)
                                  ELSE clean_text_basic(ck.out)]
    /\ UNCHANGED crawl_vars

CleanNext ==
    \/ clean_text_call
    \/ clean_text_basic_call
    \/ clean_again

SpecClean == CleanInit /\ [][CleanNext]_vars

(***************************************************************************)
(* Properties of the cleaners                                              *)
(***************************************************************************)

\* C14: cleaning is idempotent, clean(clean(s)) = clean(s), for clean_text
\* and for clean_text_basic.
C14_CleanIdempotent ==
    ck.phase = "recleaned" => ck.again = ck.out

\* a text the cleaner changed and did not empty, cleaned a second time
C14_Witness ==
    /\ ck.phase = "recleaned"
    /\ ck.call.fn = "clean_text"
    /\ ck.call.text = T_spacedDigits
    /\ ck.out # <<>>
    /\ ck.out # ck.call.text

\* what C15 says the cleaner makes of a text: runs of blanks become one
\* space, four line breaks become one blank line
CollapseExamples ==
    {[text |-> T_spacedLetters,
      cleaned |-> <<"a", " ", "b", "\n", "\n", "c">>],
     [text |-> T_spacedDigits,
      cleaned |-> <<"1", " ", "2", "\n", "\n", "3">>]}

\* C15 as stated: the cleaner collapses a run of spaces to one space and
\* three or more line breaks to exactly one blank line, so that
\* clean("a   b\n\n\n\nc") is "a b\n\nc".
C15_CollapsesToOneBlankLine ==
    ck.phase = "cleaned" =>
        \A e \in CollapseExamples :
            ck.call.text = e.text => ck.out = e.cleaned

(***************************************************************************)
(* The normalisation specification: a URL normaliser is applied to a URL,  *)
(* then to its own result                                                  *)
(***************************************************************************)

SchemeParts == {HTTPS \o SlashSlash,
                <<"H", "T", "T", "P">> \o SlashSlash,
                <<"/", "/">>, <<>>}

HostParts == {<<"a">>, <<"A", ":", "4", "4", "3">>, <<"a", ":", "8", "0">>}

PathParts == {<<>>, <<"/">>, <<"/", "p">>, <<"/", "p", "/">>,
              <<"/", "/", "p">>}

TailParts == {<<>>, <<"#", "f">>, <<" ", "#", "f">>, <<" ">>}

\* URLs as a user types them or a document holds them
UrlInputs ==
    {s \o h \o p \o t :
        s \in SchemeParts, h \in HostParts, p \in PathParts, t \in TailParts}
    \cup {U_empty}

NormalizeInit ==
    /\ NoCrawl
    /\ \E fn \in {"_normalize_url", "normalize_url"}, u \in UrlInputs :
          ck = [phase |-> "call", call |-> [fn |-> fn, url |-> u],
                out |-> <<>>, again |-> <<>>]

_normalize_url_call ==
    /\ ck.phase = "call"
    /\ ck.call.fn = "_normalize_url"
    /\ ck' = [ck EXCEPT !.phase = "normalized",
                        !.out = _normalize_url(ck.call.url)]
    /\ UNCHANGED crawl_vars

normalize_url_call ==
    /\ ck.phase = "call"
    /\ ck.call.fn = "normalize_url"
    /\ ck' = [ck EXCEPT !.phase = "normalized",
                        !.out = normalize_url(ck.call.url)]
    /\ UNCHANGED crawl_vars

\* the same normaliser applied to what it returned
normalize_again ==
    /\ ck.phase = "normalized"
    /\ ck' = [ck EXCEPT !.phase = "renormalized",
                        !.again = IF ck.call.fn = "_normalize_url"
                                  THEN _normalize_url(ck.out)
                                  ELSE normalize_url(ck.out)]
    /\ UNCHANGED crawl_vars

NormalizeNext ==
    \/ _normalize_url_call
    \/ normalize_url_call
    \/ normalize_again

SpecNormalize == NormalizeInit /\ [][NormalizeNext]_vars

(***************************************************************************)
(* Properties of the normalisers                                           *)
(***************************************************************************)

\* C16 as stated: URL normalisation is idempotent, normalising a URL that
\* is already normalised gives the same URL.
C16_NormalizeIdempotent ==
    ck.phase = "renormalized" => ck.again = ck.out

\* C16 for app.py's normalize_url alone
AppNormalizeIdempotent ==
    (ck.phase = "renormalized" /\ ck.call.fn = "normalize_url") =>
        ck.again = ck.out

(***************************************************************************)
(* Properties of the crawlers: canonical URLs, the caps, links and order   *)
(***************************************************************************)

\* no two requests of the crawl went to URLs with the same canonical form
\* (fragment dropped, trailing slash of a non-root path dropped, scheme and
\* host in lower case, default port dropped)
OneFetchPerCanonicalUrl ==
    \A i, j \in 1..Len(log) :
        i # j => _normalize_url(log[i].url) # _normalize_url(log[j].url)

\* C17 as stated: of the URLs that differ only in fragment, trailing slash,
\* case of scheme or host, or default port, a crawl fetches and records at
\* most one.
C17_CanonicalDedupe == OneFetchPerCanonicalUrl

\* C17 for the crawler of services/scraper.py alone
SvcCanonicalDedupe == impl = "services" => OneFetchPerCanonicalUrl

\* the multiple of max_pages the running crawler caps at
CapOf(maxPages) ==
    IF impl = "services" THEN maxPages * QueueCapFactor
    ELSE maxPages * SeenCapFactor

\* C18 as stated, for max_pages >= 1: the number of distinct URLs visited or
\* queued never exceeds 5 x max_pages in services/scraper.py and
\* 20 x max_pages in app.py.
C18_TotalUrlsCapped ==
    max_pages >= 1 =>
        Cardinality(seen \cup Range(queue)) <= CapOf(max_pages)

\* C18 as the code has it: services/scraper.py caps the length of the
\* queue, not the number of URLs it has handled, at 5 x max_pages; app.py
\* caps the set of URLs ever queued at 20 x max_pages; the start URL is
\* queued whatever max_pages is.
C18_QueueCapped ==
    /\ impl = "services" =>
          Len(queue) <= (IF max_pages >= 1 THEN CapOf(max_pages) ELSE 1)
    /\ impl = "app" =>
          /\ Cardinality(seen) <= (IF max_pages >= 1 THEN CapOf(max_pages)
                                   ELSE 1)
          /\ Range(queue) \subseteq seen

\* services/scraper.py with max_pages = 1 after a page of 20 links: five of
\* them are queued, the others only listed
C18_Witness ==
    /\ impl = "services"
    /\ max_pages = 1
    /\ Len(queue) = CapOf(1)
    /\ Len(all_links) > Len(queue)
    /\ Cardinality(seen \cup Range(queue)) = CapOf(1) + 1

\* app.py with max_pages = 1 after a page of 20 links: seen is full before
\* the last link
AppCapReached ==
    /\ impl = "app"
    /\ max_pages = 1
    /\ Len(pages) = 1
    /\ Cardinality(seen) = CapOf(1)
    /\ Len(queue) = CapOf(1) - 1

\* the document of the link-heavy site a page record was made from
BodyTitled(title) == CHOOSE b \in FanOutBodies : b.title = title

\* the URLs of the link-heavy site
FanOutUrls == {u \in SvcUrls \cup AppUrls : IsFanOutSite(u)}

\* what each crawler extracts from each document at each of them, computed
\* once
SvcExtractTable ==
    [u \in FanOutUrls |->
        [b \in FanOutBodies |-> _extract_internal_links(u, b.hrefs, u)]]

AppExtractTable ==
    [u \in FanOutUrls |->
        [b \in FanOutBodies |-> extract_internal_links(u, b.hrefs)]]

\* the links services/scraper.py extracted from the page of a record
ExtractedBy(page) ==
    SvcExtractTable[OrDefault(page.final_url, page.url)][BodyTitled(page.title)]

\* the links extracted from the recorded pages from the k-th on, page after
\* page
RECURSIVE ExtractedFrom(_)
ExtractedFrom(k) ==
    IF k > Len(pages) THEN <<>>
    ELSE ExtractedBy(pages[k]) \o ExtractedFrom(k + 1)

\* where u is first met in the sequence found
FirstMet(found, u) == SetMin({n \in 1..Len(found) : found[n] = u})

\* links holds what found holds, each URL once, in the order in which found
\* first has it
Increasing(met) == \A i \in 1..(Len(met) - 1) : met[i] < met[i + 1]

InFirstDiscoveryOrder(links, found) ==
    /\ Range(links) = Range(found)
    /\ Cardinality(Range(links)) = Len(links)
    /\ Increasing([i \in 1..Len(links) |-> FirstMet(found, links[i])])

\* C19: the links of the result hold no URL twice and hold every link
\* extracted from every recorded page and nothing else, in the order of
\* first discovery, whether or not the link was queued; they can be more
\* than max_pages.
C19_LinksComplete ==
    impl = "services" => InFirstDiscoveryOrder(all_links, ExtractedFrom(1))

\* a returned crawl of two pages or more whose links are more than
\* max_pages and hold a URL that was never queued
C19_Witness ==
    /\ impl = "services"
    /\ pc = "done"
    /\ Len(pages) >= 2
    /\ Len(all_links) > max_pages
    /\ \E i \in 1..Len(all_links) :
          all_links[i] \notin seen \cup Range(queue)
    /\ pages[1].title # pages[2].title

\* the links the running crawler took from the page of a record
LinksOfPage(page) ==
    IF impl = "services" THEN ExtractedBy(page)
    ELSE AppExtractTable[page.url][CHOOSE b \in FanOutBodies :
                                      b.text = page.text]

\* link distances from the start URL once a page at url is known to hold
\* links
Relax(depth, url, links) ==
    [u \in DOMAIN depth \cup Range(links) |->
        IF u \in Range(links)
           /\ (u \notin DOMAIN depth \/ depth[url] + 1 < depth[u])
        THEN depth[url] + 1
        ELSE depth[u]]

\* the link distances known once the first n recorded pages are read
RECURSIVE DepthKnown(_)
DepthKnown(n) ==
    IF n = 0 THEN [u \in {start_url} |-> 0]
    ELSE Relax(DepthKnown(n - 1), pages[n].url, LinksOfPage(pages[n]))

\* no URL known and not yet requested is nearer to the start than url
NearestFirst(depth, url, fetched) ==
    \A u \in DOMAIN depth \ fetched : depth[url] <= depth[u]

\* the pages recorded before the latest request was made
PagesBeforeLast ==
    IF log[Len(log)].outcome = "error" THEN Len(pages) ELSE Len(pages) - 1

\* the latest request went to a URL none of the URLs known at that time and
\* still to be requested was nearer to the start than; every earlier
\* request was the latest one in an earlier state
BreadthFirst ==
    log # <<>> =>
        NearestFirst(DepthKnown(PagesBeforeLast), log[Len(log)].url,
                     {log[i].url : i \in 1..(Len(log) - 1)})

\* C20 as stated: the crawl is breadth-first, no page at distance d + 1
\* from the start is fetched while a same-site page at distance d is still
\* to be fetched, also when the cap has discarded links.
C20_BreadthFirst == BreadthFirst

\* every URL the crawl has met so far
Discovered ==
    {start_url} \cup
    UNION {Range(LinksOfPage(pages[k])) : k \in 1..Len(pages)}

\* a request goes to the head of the queue, and what was behind it stays in
\* front of what the step adds
FifoStep ==
    log' # log =>
        /\ queue # <<>>
        /\ log'[Len(log')].url = Head(queue)
        /\ Len(queue') >= Len(queue) - 1
        /\ SubSeq(queue', 1, Len(queue) - 1) = Tail(queue)

\* C20 as the code has it: URLs are fetched in the order in which they were
\* queued, which is breadth-first as long as the crawl has met no more URLs
\* than the cap lets it queue.
C20_BreadthFirstWithinCap ==
    /\ [](Cardinality(Discovered) <= CapOf(max_pages) => BreadthFirst)
    /\ [][FifoStep]_vars

\* a crawl within the cap that fetched https://c/x and https://c/01, found
\* on the start page, before https://c/y, found on https://c/x
C20_Witness ==
    /\ Cardinality(Discovered) <= CapOf(max_pages)
    /\ Len(log) = 4
    /\ log[2].url = U_c \o <<"x">>
    /\ log[2].outcome = "html"
    /\ log[3].url = U_c \o <<"0", "1">>
    /\ log[4].url = U_c \o <<"y">>

\* ---------------------------------------------------------------------
\* LiveAvatar contexts: services/liveavatar.py create_or_replace_by_name
\* and app.py liveavatar_create_context against the context API
\* ---------------------------------------------------------------------

\* the most contexts the service holds when a call starts
MaxContexts == 2

N_x1 == <<"X", "1">>

\* the same name with a trailing blank
N_x1_blank == <<"X", "1", " ">>

N_y1 == <<"Y", "1">>

ContextNames == {N_x1, N_x1_blank, N_y1}

\* no id: None or ""
NoId == <<>>

\* ids the API gave to the contexts
ContextIds == {<<"1">>, <<"2">>, <<"3">>}

\* the id the API gives to a context the call creates
NewContextId == <<"9">>

ContextRows == [id : ContextIds, name : ContextNames]

\* the rows of a listing carry different ids
DistinctIds(rows) ==
    \A i, j \in 1..Len(rows) : i # j => rows[i].id # rows[j].id

ContextLists(n) == {rows \in SeqsUpTo(ContextRows, n) : DistinctIds(rows)}

\* payload.name as the caller passes it
PayloadNames == {N_x1, <<" ">> \o N_x1, <<>>}

\* opening_text and prompt are there or empty
Payloads ==
    [name : PayloadNames, opening_text : {<<>>, <<"o">>}, prompt : {<<"p">>}]

M_already_exists == <<"a","l","r","e","a","d","y"," ","e","x","i","s","t","s">>

M_context_exists == <<"C","o","n","t","e","x","t"," ","w","i","t","h"," ","t","h","i","s"," ","n","a","m","e"," ","a","l","r","e","a","d","y"," ","e","x","i","s","t","s">>

M_invalid_key == <<"I","n","v","a","l","i","d"," ","A","P","I"," ","k","e","y">>

\* answers of POST /v1/contexts: the context is created; the name is
\* reported as taken, in "message" or in an item of "data"; another error;
\* or the request raises (no answer)
R_created == [kind |-> "answer", status |-> 200, message |-> <<>>, data |-> <<>>]

R_exists ==
    [kind |-> "answer", status |-> 400,
     message |-> M_context_exists \o <<".">>, data |-> <<>>]

R_exists_in_data ==
    [kind |-> "answer", status |-> 422, message |-> <<>>,
     data |-> <<M_context_exists \o <<".">>>>]

R_error ==
    [kind |-> "answer", status |-> 401, message |-> M_invalid_key, data |-> <<>>]

R_raise == [kind |-> "raise"]

\* an id used as a condition: None and "" are false
Truthy(v) == v # NoId

\* the service has a context under this name
NameTaken(rows, name) == \E i \in 1..Len(rows) : rows[i].name = name

\* what the service answers to a POST of this name
CreateResponses(rows, name) ==
    {R_error, R_raise} \cup
    (IF NameTaken(rows, name) THEN {R_exists, R_exists_in_data}
                              ELSE {R_created})

\* the index of the first row with this name, 0 if there is none
FirstNamed(rows, name) ==
    IF NameTaken(rows, name)
    THEN SetMin({i \in 1..Len(rows) : rows[i].name = name})
    ELSE 0

\* services/liveavatar.py find_context_id_by_name, on the rows of a listing
find_context_id_by_name(rows, name) ==
    IF name = <<>> \/ FirstNamed(rows, name) = 0
    THEN NoId
    ELSE rows[FirstNamed(rows, name)].id

\* the ids create_or_replace_by_name deletes after a listing
svc_ids_to_delete(rows, name) ==
    IF Truthy(find_context_id_by_name(rows, name))
    THEN <<find_context_id_by_name(rows, name)>>
    ELSE <<>>

\* app.py liveavatar_delete_by_name: the ids of the rows whose stripped name
\* is the name, in the order of the listing
RECURSIVE app_ids_to_delete(_, _)
app_ids_to_delete(rows, name) ==
    IF rows = <<>> THEN <<>>
    ELSE (IF Strip(Head(rows).name) = name /\ Truthy(Head(rows).id)
          THEN <<Head(rows).id>> ELSE <<>>)
         \o app_ids_to_delete(Tail(rows), name)

\* "already exists" in an item of data
ExistsInData(data) ==
    \E i \in 1..Len(data) : Contains(Lower(data[i]), M_already_exists)

\* services/liveavatar.py: already_exists of a create response
already_exists(resp) ==
    \/ Contains(Lower(resp.message), M_already_exists)
    \/ ExistsInData(resp.data)

\* app.py: the error of a create response names the clash
name_clash_reported(resp) ==
    /\ resp.status >= 400
    /\ \/ Contains(resp.message, M_context_exists)
       \/ \E i \in 1..Len(resp.data) : Contains(resp.data[i], M_context_exists)

\* _filter_context_payload(allow_partial=False) raises for a payload that
\* misses a required field
MissingRequired(payload) ==
    \/ Strip(payload.name) = <<>>
    \/ Strip(payload.opening_text) = <<>>
    \/ Strip(payload.prompt) = <<>>

\* the service without the context of this id
RECURSIVE WithoutId(_, _)
WithoutId(rows, id) ==
    IF rows = <<>> THEN <<>>
    ELSE (IF Head(rows).id = id THEN <<>> ELSE <<Head(rows)>>)
         \o WithoutId(Tail(rows), id)

\* a call of create_or_replace_by_name (services/liveavatar.py) or of
\* liveavatar_create_context (app.py), on a service that holds some contexts
LiveAvatarInit ==
    /\ NoCrawl
    /\ \E fn \in {"create_or_replace_by_name", "liveavatar_create_context"},
          payload \in Payloads, rows \in ContextLists(MaxContexts) :
          ck = [phase |-> "call", call |-> [fn |-> fn, payload |-> payload],
                name |-> <<>>, round |-> 1, contexts |-> rows,
                existing |-> rows, todo |-> <<>>, sent |-> <<>>]

\* the request is sent and answered (or raises)
Sent(method, target, answer) ==
    Append(ck.sent, [method |-> method, target |-> target, answer |-> answer])

\* the next position after a listing or a delete
AfterDeletes(todo) == IF todo # <<>> THEN "delete" ELSE "create"

\* the service after a POST of this name
AfterCreate(resp, name) ==
    IF resp = R_created
    THEN Append(ck.contexts, [id |-> NewContextId, name |-> name])
    ELSE ck.contexts

\* the service after a DELETE of this id
AfterDelete(outcome, id) ==
    IF outcome = "deleted" THEN WithoutId(ck.contexts, id) ELSE ck.contexts

\* services/liveavatar.py create_or_replace_by_name: name = ....strip()
create_or_replace_by_name_begin ==
    /\ ck.phase = "call"
    /\ ck.call.fn = "create_or_replace_by_name"
    /\ ck' = [ck EXCEPT !.name = Strip(ck.call.payload.name),
                        !.phase = IF Strip(ck.call.payload.name) # <<>>
                                  THEN "list" ELSE "create"]
    /\ UNCHANGED crawl_vars

\* existing_id = self.find_context_id_by_name(name)
svc_find_context ==
    /\ ck.phase = "list"
    /\ ck.call.fn = "create_or_replace_by_name"
    /\ \E outcome \in {"ok", "bad", "raise"} :
          ck' = [ck EXCEPT
                   !.sent = Sent("GET", <<>>, outcome),
                   !.todo = IF outcome = "ok"
                            THEN svc_ids_to_delete(ck.contexts, ck.name)
                            ELSE <<>>,
                   !.phase = IF outcome = "raise" THEN "raised"
                             ELSE IF outcome = "ok"
                             THEN AfterDeletes(svc_ids_to_delete(ck.contexts, ck.name))
                             ELSE "create"]
    /\ UNCHANGED crawl_vars

\* if existing_id: self.delete_context(existing_id)
svc_delete_context ==
    /\ ck.phase = "delete"
    /\ ck.call.fn = "create_or_replace_by_name"
    /\ \E outcome \in {"deleted", "refused", "raise"} :
          ck' = [ck EXCEPT
                   !.sent = Sent("DELETE", Head(ck.todo), outcome),
                   !.contexts = AfterDelete(outcome, Head(ck.todo)),
                   !.todo = <<>>,
                   !.phase = IF outcome = "raise" THEN "raised" ELSE "create"]
    /\ UNCHANGED crawl_vars

\* where create_or_replace_by_name goes after the answer to a create
svc_after_create(resp) ==
    IF resp = R_raise THEN "raised"
    ELSE IF ck.round = 1 /\ already_exists(resp) /\ ck.name # <<>> THEN "list"
    ELSE "returned"

\* resp = self.create_context(payload), first or second time
svc_create_context ==
    /\ ck.phase = "create"
    /\ ck.call.fn = "create_or_replace_by_name"
    /\ IF MissingRequired(ck.call.payload)
       THEN ck' = [ck EXCEPT !.phase = "raised"]
       ELSE \E resp \in CreateResponses(ck.contexts, Strip(ck.call.payload.name)) :
               ck' = [ck EXCEPT
                        !.sent = Sent("POST", Strip(ck.call.payload.name), resp),
                        !.contexts = AfterCreate(resp, Strip(ck.call.payload.name)),
                        !.round = IF svc_after_create(resp) = "list" THEN 2 ELSE @,
                        !.phase = svc_after_create(resp)]
    /\ UNCHANGED crawl_vars

\* app.py liveavatar_create_context: name = ....strip(); raise ValueError
liveavatar_create_context_begin ==
    /\ ck.phase = "call"
    /\ ck.call.fn = "liveavatar_create_context"
    /\ ck' = [ck EXCEPT !.name = Strip(ck.call.payload.name),
                        !.phase = IF Strip(ck.call.payload.name) = <<>>
                                  THEN "raised" ELSE "list"]
    /\ UNCHANGED crawl_vars

\* liveavatar_delete_by_name: ctxs = liveavatar_list_contexts(); whatever
\* it raises is swallowed
app_list_contexts ==
    /\ ck.phase = "list"
    /\ ck.call.fn = "liveavatar_create_context"
    /\ \E outcome \in {"ok", "bad", "raise"} :
          ck' = [ck EXCEPT
                   !.sent = Sent("GET", <<>>, outcome),
                   !.todo = IF outcome = "ok"
                            THEN app_ids_to_delete(ck.contexts, ck.name)
                            ELSE <<>>,
                   !.phase = IF outcome = "ok"
                             THEN AfterDeletes(app_ids_to_delete(ck.contexts, ck.name))
                             ELSE "create"]
    /\ UNCHANGED crawl_vars

\* liveavatar_delete_by_name: liveavatar_delete_context(str(cid)) for the
\* next matching row; a request that raises ends the loop
app_delete_context ==
    /\ ck.phase = "delete"
    /\ ck.call.fn = "liveavatar_create_context"
    /\ \E outcome \in {"deleted", "refused", "raise"} :
          ck' = [ck EXCEPT
                   !.sent = Sent("DELETE", Head(ck.todo), outcome),
                   !.contexts = AfterDelete(outcome, Head(ck.todo)),
                   !.todo = IF outcome = "raise" THEN <<>> ELSE Tail(ck.todo),
                   !.phase = IF outcome = "raise" THEN "create"
                             ELSE AfterDeletes(Tail(ck.todo))]
    /\ UNCHANGED crawl_vars

\* where liveavatar_create_context goes after the answer to a POST
app_after_create(resp) ==
    IF resp = R_raise THEN "raised"
    ELSE IF resp.status < 400 THEN "returned"
    ELSE IF ck.round = 1 /\ name_clash_reported(resp) THEN "list"
    ELSE "raised"

\* r = requests.post(url, ...), first or second time
app_create_context ==
    /\ ck.phase = "create"
    /\ ck.call.fn = "liveavatar_create_context"
    /\ \E resp \in CreateResponses(ck.contexts, ck.call.payload.name) :
          ck' = [ck EXCEPT
                   !.sent = Sent("POST", ck.call.payload.name, resp),
                   !.contexts = AfterCreate(resp, ck.call.payload.name),
                   !.round = IF app_after_create(resp) = "list" THEN 2 ELSE @,
                   !.phase = app_after_create(resp)]
    /\ UNCHANGED crawl_vars

LiveAvatarNext ==
    \/ create_or_replace_by_name_begin
    \/ svc_find_context
    \/ svc_delete_context
    \/ svc_create_context
    \/ liveavatar_create_context_begin
    \/ app_list_contexts
    \/ app_delete_context
    \/ app_create_context

SpecLiveAvatar == LiveAvatarInit /\ [][LiveAvatarNext]_vars

\* the positions of the requests of this method, in the order sent
RequestsOf(method) == {i \in 1..Len(ck.sent) : ck.sent[i].method = method}

\* the answer reports that the name is taken
ReportsNameExists(answer) == answer \in {R_exists, R_exists_in_data}

\* the ids of the contexts that had the payload's name when the call began
NamedAtStart ==
    {ck.existing[i].id : i \in {j \in 1..Len(ck.existing) :
                                  ck.existing[j].name = ck.name}}

\* the request at position k deletes a context with the payload's name
DeletesNamed(k) ==
    /\ ck.sent[k].method = "DELETE"
    /\ \E i \in 1..Len(ck.existing) :
          /\ ck.existing[i].id = ck.sent[k].target
          /\ Strip(ck.existing[i].name) = ck.name

\* at most two creates, the second only after the first was answered with
\* "already exists", and nothing is sent after the second
AtMostTwoCreates ==
    /\ Cardinality(RequestsOf("POST")) <= 2
    /\ Cardinality(RequestsOf("POST")) = 2 =>
          /\ ReportsNameExists(ck.sent[SetMin(RequestsOf("POST"))].answer)
          /\ SetMax(RequestsOf("POST")) = Len(ck.sent)

\* C21: one create-or-replace call sends at most two creates; the second is
\* sent only when the first answer reports that the name already exists, a
\* delete of a context with that name has been sent before it, and after it
\* nothing more is created or deleted.
C21_RetryOnceAfterDelete ==
    /\ AtMostTwoCreates
    /\ Cardinality(RequestsOf("POST")) = 2 =>
          \E k \in 1..(SetMax(RequestsOf("POST")) - 1) : DeletesNamed(k)

\* the position of the first create request, 0 if none was sent
FirstCreate ==
    IF RequestsOf("POST") = {} THEN 0 ELSE SetMin(RequestsOf("POST"))

\* every request sent before position n was answered with success
AllAnsweredBefore(n) ==
    \A k \in 1..(n - 1) : ck.sent[k].answer \in {"ok", "deleted"}

\* a delete request was sent for this id before position n
DeleteSentBefore(id, n) ==
    \E k \in 1..(n - 1) :
        ck.sent[k].method = "DELETE" /\ ck.sent[k].target = id

\* every context that had the payload's name when the call began has had
\* its delete request by the time the first create is sent
AllNamedDeletedFirst ==
    (FirstCreate # 0 /\ AllAnsweredBefore(FirstCreate)) =>
        \A id \in NamedAtStart : DeleteSentBefore(id, FirstCreate)

\* C22: before the first create request of a create-or-replace call is
\* sent, a delete request has been sent for every existing context whose
\* name is the payload's name, all of them when several share the name
\* (stated for the calls in which the listing and every delete were
\* answered with success).
C22_AllNamedDeletedBeforeCreate == AllNamedDeletedFirst

\* app.py alone does so
AppAllNamedDeletedFirst ==
    ck.call.fn = "liveavatar_create_context" => AllNamedDeletedFirst

\* ---------------------------------------------------------------------
\* The loop of _chunk_by_chars, one iteration per step
\* ---------------------------------------------------------------------

\* a call of _chunk_by_chars(text, max_chars, overlap)
ChunkLoopInit ==
    /\ NoCrawl
    /\ \E t \in Texts, m \in (-1)..MaxCharsBound, o \in (-1)..MaxOverlap :
          ck = [phase |-> "call",
                call |-> [fn |-> "_chunk_by_chars", text |-> t,
                          max_chars |-> m, overlap |-> o],
                t |-> <<>>, start |-> 0, n |-> 0, step |-> 0,
                chunks |-> <<>>]

\* the early returns, and t, start, n and step before the loop
_chunk_by_chars_begin ==
    /\ ck.phase = "call"
    /\ ck' = IF ck.call.text = <<>>
             THEN [ck EXCEPT !.phase = "returned"]
             ELSE IF ck.call.max_chars <= 0
             THEN [ck EXCEPT !.phase = "returned",
                             !.chunks = <<ck.call.text>>]
             ELSE [ck EXCEPT !.phase = "loop",
                             !.t = Strip(ck.call.text),
                             !.n = Len(Strip(ck.call.text)),
                             !.step = chunk_step(ck.call.max_chars,
                                                 ck.call.overlap)]
    /\ UNCHANGED crawl_vars

\* end = min(start + max_chars, n)
SliceEnd == IF ck.start + ck.call.max_chars < ck.n
            THEN ck.start + ck.call.max_chars ELSE ck.n

\* one pass through the body of "while start < n"
chunk_loop_iteration ==
    /\ ck.phase = "loop"
    /\ ck.start < ck.n
    /\ ck' = [ck EXCEPT
                !.chunks = IF Strip(SubSeq(ck.t, ck.start + 1, SliceEnd)) # <<>>
                           THEN Append(@, Strip(SubSeq(ck.t, ck.start + 1, SliceEnd)))
                           ELSE @,
                !.phase = IF SliceEnd >= ck.n THEN "returned" ELSE @,
                !.start = IF SliceEnd >= ck.n THEN @ ELSE @ + ck.step]
    /\ UNCHANGED crawl_vars

\* "while start < n" is false: return chunks
chunk_loop_exit ==
    /\ ck.phase = "loop"
    /\ ~(ck.start < ck.n)
    /\ ck' = [ck EXCEPT !.phase = "returned"]
    /\ UNCHANGED crawl_vars

ChunkLoopNext ==
    \/ _chunk_by_chars_begin
    \/ chunk_loop_iteration
    \/ chunk_loop_exit

\* the call runs on as long as it has not returned
SpecChunkLoop ==
    ChunkLoopInit /\ [][ChunkLoopNext]_vars /\ WF_vars(ChunkLoopNext)

\* an iteration that does not leave the loop moves the slice start forward
StartIncreases ==
    (ck.phase = "loop" /\ ck'.phase = "loop") => ck'.start > ck.start

\* C23: the character-slicing loop terminates for every non-empty text,
\* every max_chars >= 1 and every overlap, also for overlap >= max_chars
\* and for a negative overlap: the slice start grows in every iteration and
\* the call returns.
C23_LoopTerminates ==
    /\ [][StartIncreases]_vars
    /\ <>(ck.phase = "returned")

\* the loop went round twice with an overlap that is more than max_chars
C23_Witness ==
    /\ ck.phase = "loop"
    /\ ck.call.overlap > ck.call.max_chars
    /\ ck.start = 2 * ck.step
    /\ Len(ck.chunks) = 2

\* step by step, the loop returns what _chunk_by_chars returns
LoopAgrees ==
    ck.phase = "returned" =>
        ck.chunks = _chunk_by_chars(ck.call.text, ck.call.max_chars,
                                    ck.call.overlap)

====
